---- MODULE Spec2Model ----
(***************************************************************************)
(* Model of bin/read-sequences.py: a batch tool that reads FASTA records,  *)
(* extracts a YYYY-MM-DD date from each record label, writes the record    *)
(* table and, optionally, yearly / monthly / daily count summaries.        *)
(*                                                                         *)
(* Strings whose characters matter (labels, dates, date parts) are         *)
(* sequences of one-character strings, so that the regular-expression      *)
(* search, str.split and the lexical order of group keys are computed      *)
(* character by character.                                                 *)
(***************************************************************************)
EXTENDS Integers, Sequences, FiniteSets, TLC

VARIABLES
    args,            \* argparse namespace (paths, output_filepath, output_format, summarize, summarize_format)
    pc,              \* position of main()
    out_file,        \* state of the primary output destination
    handles,         \* handles obtained with open(file, 'r'), in opening order
    input_files,     \* the list input_files of main()
    file_idx,        \* position of the outer loop of parse_sequences (1-based)
    record_idx,      \* enumerate() counter of the inner loop of parse_sequences
    stdin_eof,       \* sys.stdin has been read to its end
    sequences,       \* list sequences of parse_sequences / rows of df
    unknown_labels,  \* list unknown_labels of parse_sequences
    summaries,       \* summary files written by output_summaries, in order
    stderr,          \* lines printed to sys.stderr
    error            \* the exception that ended the run, "" when none

vars == <<args, pc, out_file, handles, input_files, file_idx, record_idx,
          stdin_eof, sequences, unknown_labels, summaries, stderr, error>>

----------------------------------------------------------------------------
(* Bounds *)

MaxPaths == 2

MaxRecords == 3

MaxFrags == 2

----------------------------------------------------------------------------
(* Characters and strings *)

Digit == {"0", "1", "2", "3", "4", "5", "6", "7", "8", "9"}

\* The characters that occur in the model, in ascending code-point order.
CharOrder ==
    <<"-", "/", "0", "1", "2", "3", "4", "5", "6", "7", "8", "9",
      "A", "C", "G", "N", "T", "a", "b", "c", "x", "|">>

Ord(c) == CHOOSE i \in DOMAIN CharOrder : CharOrder[i] = c

\* Python's < on str: the first differing character decides, a proper
\* prefix is smaller.
RECURSIVE StrLess(_, _)
StrLess(a, b) ==
    IF b = <<>> THEN FALSE
    ELSE IF a = <<>> THEN TRUE
    ELSE IF a[1] # b[1] THEN Ord(a[1]) < Ord(b[1])
    ELSE StrLess(Tail(a), Tail(b))

\* Python's < on tuples of str of equal length.
RECURSIVE TupleLess(_, _)
TupleLess(k1, k2) ==
    IF k1 = <<>> \/ k2 = <<>> THEN FALSE
    ELSE IF k1[1] # k2[1] THEN StrLess(k1[1], k2[1])
    ELSE TupleLess(Tail(k1), Tail(k2))

\* The sentinel 'N/A'.
NA == <<"N", "/", "A">>

----------------------------------------------------------------------------
(* parse_date_from_label *)

\* The pattern \d{4}-\d{2}-\d{2} as a sequence of tokens.
DatePattern == <<"d", "d", "d", "d", "-", "d", "d", "-", "d", "d">>

TokenMatches(tok, c) == IF tok = "d" THEN c \in Digit ELSE c = tok

\* The pattern matches label at position i (1-based).
MatchAt(label, i) ==
    /\ i + Len(DatePattern) - 1 <= Len(label)
    /\ \A k \in DOMAIN DatePattern : TokenMatches(DatePattern[k], label[i + k - 1])

\* re.search: try each start position from the left; 0 when no match.
RECURSIVE re_search(_, _)
re_search(label, i) ==
    IF i + Len(DatePattern) - 1 > Len(label) THEN 0
    ELSE IF MatchAt(label, i) THEN i
    ELSE re_search(label, i + 1)

\* A search that keeps the last match instead of the first.
RECURSIVE re_search_last(_, _)
re_search_last(label, i) ==
    IF i < 1 THEN 0
    ELSE IF MatchAt(label, i) THEN i
    ELSE re_search_last(label, i - 1)

parse_date_last(label) ==
    LET m == re_search_last(label, Len(label))
    IN  IF m # 0 THEN SubSeq(label, m, m + Len(DatePattern) - 1) ELSE NA

parse_date_from_label(label) ==
    LET m == re_search(label, 1)
    IN  IF m # 0 THEN SubSeq(label, m, m + Len(DatePattern) - 1) ELSE NA

\* str.split(sep) for a one-character separator.
RECURSIVE split(_, _)
split(s, sep) ==
    IF \A i \in DOMAIN s : s[i] # sep THEN <<s>>
    ELSE LET i == CHOOSE j \in DOMAIN s :
                      s[j] = sep /\ \A k \in 1..(j - 1) : s[k] # sep
         IN  <<SubSeq(s, 1, i - 1)>> \o split(SubSeq(s, i + 1, Len(s)), sep)

----------------------------------------------------------------------------
(* parse_sequences: one row of the table *)

SourcePath(name) == IF name # "<stdin>" THEN name ELSE "standard input"

\* A row that numbers records across all sources instead of per source.
MakeRecordGlobal(id, seq, date, name, idx) ==
    [sequenceLabel        |-> id,
     sequenceCharacters   |-> seq,
     sequenceDateISO      |-> date,
     sequenceDateYear     |-> IF date # NA THEN split(date, "-")[1] ELSE NA,
     sequenceDateMonth    |-> IF date # NA THEN split(date, "-")[2] ELSE NA,
     sequenceDateDay      |-> IF date # NA THEN split(date, "-")[3] ELSE NA,
     sequenceLengthMin    |-> Len(seq),
     sequenceLengthMax    |-> Len(seq),
     sequenceSourcePath   |-> SourcePath(name),
     sequenceSourceOffset |-> Len(sequences)]

MakeRecord(id, seq, date, name, idx) ==
    [sequenceLabel        |-> id,
     sequenceCharacters   |-> seq,
     sequenceDateISO      |-> date,
     sequenceDateYear     |-> IF date # NA THEN split(date, "-")[1] ELSE NA,
     sequenceDateMonth    |-> IF date # NA THEN split(date, "-")[2] ELSE NA,
     sequenceDateDay      |-> IF date # NA THEN split(date, "-")[3] ELSE NA,
     sequenceLengthMin    |-> Len(seq),
     sequenceLengthMax    |-> Len(seq),
     sequenceSourcePath   |-> SourcePath(name),
     sequenceSourceOffset |-> idx]

\* An unknown-labels list that records each label only once.
AppendUnknownOnce(labels, id, date) ==
    IF date = NA /\ \A i \in DOMAIN labels : labels[i] # id
    THEN Append(labels, id) ELSE labels

AppendUnknown(labels, id, date) ==
    IF date = NA THEN Append(labels, id) ELSE labels

----------------------------------------------------------------------------
(* output_summaries *)

SummaryNames == <<"yearly", "monthly", "daily">>

\* summary_functions: the grouping columns of each summary.
GroupColumns(name) ==
    IF name = "yearly" THEN <<"sequenceDateYear">>
    ELSE IF name = "monthly" THEN <<"sequenceDateYear", "sequenceDateMonth">>
    ELSE <<"sequenceDateYear", "sequenceDateMonth", "sequenceDateDay">>

\* The group key of a row: its values in the grouping columns.
KeyOf(row, cols) == [i \in DOMAIN cols |-> row[cols[i]]]

\* The keys of S in ascending order (groupby's default sort=True).
RECURSIVE SortKeys(_)
SortKeys(S) ==
    IF S = {} THEN <<>>
    ELSE LET least == CHOOSE k \in S : \A o \in S \ {k} : TupleLess(k, o)
         IN  <<least>> \o SortKeys(S \ {least})

\* The keys of df in order of first appearance (what sort=False would give).
RECURSIVE FirstSeenKeys(_, _)
FirstSeenKeys(df, cols) ==
    IF df = <<>> THEN <<>>
    ELSE LET before == FirstSeenKeys(SubSeq(df, 1, Len(df) - 1), cols)
             k == KeyOf(df[Len(df)], cols)
         IN  IF \E i \in DOMAIN before : before[i] = k THEN before
             ELSE Append(before, k)

GroupSize(df, cols, key) == Cardinality({i \in DOMAIN df : KeyOf(df[i], cols) = key})

\* A grouping that leaves out the rows whose key holds the sentinel.
GroupByDropNA(df, cols) ==
    LET keys == SortKeys({k \in {KeyOf(df[i], cols) : i \in DOMAIN df} :
                              \A j \in DOMAIN k : k[j] # NA})
    IN  [n \in DOMAIN keys |->
            [key |-> keys[n], NumSequences |-> GroupSize(df, cols, keys[n])]]

\* A grouping that keeps the groups in order of first appearance.
GroupByUnsorted(df, cols) ==
    LET keys == FirstSeenKeys(df, cols)
    IN  [n \in DOMAIN keys |->
            [key |-> keys[n], NumSequences |-> GroupSize(df, cols, keys[n])]]

\* df.groupby(cols).size().reset_index(name='NumSequences') for a table
\* with at least one row: one row per distinct key, keys ascending.
GroupBy(df, cols) ==
    LET keys == SortKeys({KeyOf(df[i], cols) : i \in DOMAIN df})
    IN  [n \in DOMAIN keys |->
            [key |-> keys[n], NumSequences |-> GroupSize(df, cols, keys[n])]]

\* The three files written by output_summaries, in dictionary order.
OutputSummaries(df, summarize_prefix, summarize_format) ==
    [n \in DOMAIN SummaryNames |->
        [filename |-> <<summarize_prefix, SummaryNames[n]>>,
         format   |-> summarize_format,
         rows     |-> GroupBy(df, GroupColumns(SummaryNames[n]))]]

\* A choice of summary format that ignores --output-format.
SummaryFormatJson(a) ==
    IF a.summarize_format # "" THEN a.summarize_format ELSE "json"

\* summary_format of main(): --summarize-format, else --output-format.
SummaryFormat(a) ==
    IF a.summarize_format # "" THEN a.summarize_format ELSE a.output_format

----------------------------------------------------------------------------
(* The environment: the command line and the files it names *)

Formats == {"json", "csv", "tsv"}

\* "-" is the standard input; missing.fa cannot be opened; bad.fa opens
\* but raises when it is read.
PathSet == {"-", "a.fa", "missing.fa", "bad.fa"}

FileStatus(path) ==
    IF path = "missing.fa" THEN "missing"
    ELSE IF path = "bad.fa" THEN "unreadable"
    ELSE "ok"

SeqsUpTo(S, n) == UNION {[1..k -> S] : k \in 0..n}

\* The FASTA records a readable source may yield: (record.id, record.seq).
RunRecords ==
    { [id  |-> <<"a", "|", "2", "0", "2", "1", "-", "0", "3", "-", "1", "5">>,
       seq |-> <<"A", "C", "G", "T">>],
      [id  |-> <<"b", "|", "2", "0", "2", "1", "-", "0", "1", "-", "2", "0">>,
       seq |-> <<"A", "C">>],
      [id  |-> <<"c", "2", "0", "2", "0", "-", "1", "2", "-", "0", "1">>,
       seq |-> <<"G">>],
      [id  |-> <<"x", "|", "2", "0", "-", "1">>,
       seq |-> <<>>],
      [id  |-> <<"b">>,
       seq |-> <<"T", "T">>] }

\* Pieces from which labels are assembled.
Fragments ==
    { <<"2", "0", "2", "1", "-", "0", "3", "-", "1", "5">>,
      <<"1", "9", "9", "9", "-", "1", "2", "-", "3", "1">>,
      <<"2", "0", "2", "1", "-", "0", "3", "-">>,
      <<"2", "0", "2", "1", "-", "3", "-", "1", "5">>,
      <<"2", "0", "2", "1", "/", "0", "3", "/", "1", "5">>,
      <<"-", "0", "3", "-", "1", "5">>,
      <<"2", "0", "2">>,
      <<"1">>,
      <<"-">>,
      <<"x">>,
      <<"|">>,
      <<"a", "b">> }

RECURSIVE LabelsOf(_)
LabelsOf(n) ==
    IF n = 0 THEN {<<>>}
    ELSE LET P == LabelsOf(n - 1)
         IN  P \cup {p \o f : p \in P, f \in Fragments}

Labels == LabelsOf(MaxFrags)

----------------------------------------------------------------------------
(* main *)

\* The state before main() runs, for a command line drawn from the given sets.
InitWith(pathLists, outputs, formats, prefixes, summaryFormats) ==
    /\ args \in [paths            : pathLists,
                 output_filepath  : outputs,
                 output_format    : formats,
                 summarize        : prefixes,
                 summarize_format : summaryFormats]
    /\ pc = "parse_args"
    /\ out_file = [state |-> "untouched", format |-> "", rows |-> <<>>]
    /\ handles = <<>>
    /\ input_files = <<>>
    /\ file_idx = 1
    /\ record_idx = 0
    /\ stdin_eof = FALSE
    /\ sequences = <<>>
    /\ unknown_labels = <<>>
    /\ summaries = <<>>
    /\ stderr = <<>>
    /\ error = ""

\* Every command line: "" stands for an option that was not given.
Init ==
    InitWith(SeqsUpTo(PathSet, MaxPaths), {"stdout", "out"}, Formats,
             {"", "sum"}, Formats \cup {""})

\* parser.parse_args(): paths defaults to ['-']; argparse.FileType('w')
\* opens the --output-filepath destination for writing.
ParseArgs ==
    /\ pc = "parse_args"
    /\ args' = [args EXCEPT !.paths = IF @ = <<>> THEN <<"-">> ELSE @]
    /\ out_file' = IF args.output_filepath # "stdout"
                   THEN [out_file EXCEPT !.state = "truncated"]
                   ELSE out_file
    /\ pc' = "open_inputs"
    /\ UNCHANGED <<handles, input_files, file_idx, record_idx, stdin_eof,
                   sequences, unknown_labels, summaries, stderr, error>>

\* The first path that open() rejects, 0 when there is none.
FirstFailure(paths) ==
    IF \E i \in DOMAIN paths : paths[i] # "-" /\ FileStatus(paths[i]) = "missing"
    THEN CHOOSE i \in DOMAIN paths :
            /\ paths[i] # "-" /\ FileStatus(paths[i]) = "missing"
            /\ \A j \in 1..(i - 1) : ~(paths[j] # "-" /\ FileStatus(paths[j]) = "missing")
    ELSE 0

\* The handles open() returns for the named paths among paths.
OpenedHandles(paths) ==
    LET named == SelectSeq(paths, LAMBDA p : p # "-")
    IN  [k \in DOMAIN named |-> [path |-> named[k], closed |-> FALSE]]

\* The element of input_files for paths[i]: 0 is sys.stdin, k > 0 is handles[k].
HandleRef(paths, i) ==
    IF paths[i] = "-" THEN 0
    ELSE Len(SelectSeq(SubSeq(paths, 1, i), LAMBDA p : p # "-"))

\* input_files = [open(file, 'r') if file != '-' else sys.stdin ...], all opened.
OpenInputs ==
    /\ pc = "open_inputs"
    /\ FirstFailure(args.paths) = 0
    /\ handles' = OpenedHandles(args.paths)
    /\ input_files' = [i \in DOMAIN args.paths |-> HandleRef(args.paths, i)]
    /\ pc' = "for_file"
    /\ UNCHANGED <<args, out_file, file_idx, record_idx, stdin_eof, sequences,
                   unknown_labels, summaries, stderr, error>>

\* The list comprehension raises at the first path that cannot be opened;
\* the handles opened before it stay as they are.
OpenInputsFails ==
    /\ pc = "open_inputs"
    /\ FirstFailure(args.paths) # 0
    /\ handles' = OpenedHandles(SubSeq(args.paths, 1, FirstFailure(args.paths) - 1))
    /\ pc' = "crashed"
    /\ error' = "OpenError"
    /\ UNCHANGED <<args, out_file, input_files, file_idx, record_idx, stdin_eof,
                   sequences, unknown_labels, summaries, stderr>>

\* file.name of an element of input_files.
FileName(f) == IF f = 0 THEN "<stdin>" ELSE handles[f].path

CurrentFile == input_files[file_idx]

\* The current file can yield a record or its end without raising.
CurrentReadable ==
    \/ CurrentFile = 0
    \/ FileStatus(FileName(CurrentFile)) = "ok"

\* for file in files: the next file, with the notice for standard input.
NextFile ==
    /\ pc = "for_file"
    /\ file_idx <= Len(input_files)
    /\ stderr' = IF FileName(CurrentFile) = "<stdin>"
                 THEN Append(stderr, [line |-> "(reading from standard input)"])
                 ELSE stderr
    /\ record_idx' = 0
    /\ pc' = "for_record"
    /\ UNCHANGED <<args, out_file, handles, input_files, file_idx, stdin_eof,
                   sequences, unknown_labels, summaries, error>>

\* The body of the inner loop for one record yielded by SeqIO.parse.
ParseRecordOf(rec) ==
    /\ pc = "for_record"
    /\ CurrentReadable
    /\ ~(CurrentFile = 0 /\ stdin_eof)
    /\ LET date == parse_date_from_label(rec.id)
       IN  /\ unknown_labels' = AppendUnknown(unknown_labels, rec.id, date)
           /\ sequences' = Append(sequences,
                  MakeRecord(rec.id, rec.seq, date, FileName(CurrentFile), record_idx))
    /\ record_idx' = record_idx + 1
    /\ UNCHANGED <<args, pc, out_file, handles, input_files, file_idx, stdin_eof,
                   summaries, stderr, error>>

ParseRecord ==
    /\ Len(sequences) < MaxRecords
    /\ \E rec \in RunRecords : ParseRecordOf(rec)

\* SeqIO.parse is exhausted: on to the next file.
EndOfFile ==
    /\ pc = "for_record"
    /\ CurrentReadable
    /\ stdin_eof' = (stdin_eof \/ CurrentFile = 0)
    /\ file_idx' = file_idx + 1
    /\ pc' = "for_file"
    /\ UNCHANGED <<args, out_file, handles, input_files, record_idx, sequences,
                   unknown_labels, summaries, stderr, error>>

\* Reading the current file raises.
ReadFails ==
    /\ pc = "for_record"
    /\ ~CurrentReadable
    /\ pc' = "crashed"
    /\ error' = "ReadError"
    /\ UNCHANGED <<args, out_file, handles, input_files, file_idx, record_idx,
                   stdin_eof, sequences, unknown_labels, summaries, stderr>>

\* return sequences, unknown_labels; df = pd.DataFrame(sequences)
ParseReturn ==
    /\ pc = "for_file"
    /\ file_idx > Len(input_files)
    /\ pc' = "output"
    /\ UNCHANGED <<args, out_file, handles, input_files, file_idx, record_idx,
                   stdin_eof, sequences, unknown_labels, summaries, stderr, error>>

\* df.to_json / df.to_csv to args.output_filepath.
WriteOutput ==
    /\ pc = "output"
    /\ out_file' = [state |-> "written", format |-> args.output_format,
                    rows |-> sequences]
    /\ pc' = "summarize"
    /\ UNCHANGED <<args, handles, input_files, file_idx, record_idx, stdin_eof,
                   sequences, unknown_labels, summaries, stderr, error>>

\* if args.summarize: output_summaries(df, args.summarize, summary_format)
Summarize ==
    /\ pc = "summarize"
    /\ args.summarize # ""
    /\ sequences # <<>>
    /\ summaries' = OutputSummaries(sequences, args.summarize, SummaryFormat(args))
    /\ pc' = "report"
    /\ UNCHANGED <<args, out_file, handles, input_files, file_idx, record_idx,
                   stdin_eof, sequences, unknown_labels, stderr, error>>

\* pd.DataFrame([]) has no columns, so df.groupby(['sequenceDateYear'])
\* raises KeyError before the first summary file is written.
SummarizeFails ==
    /\ pc = "summarize"
    /\ args.summarize # ""
    /\ sequences = <<>>
    /\ pc' = "crashed"
    /\ error' = "KeyError"
    /\ UNCHANGED <<args, out_file, handles, input_files, file_idx, record_idx,
                   stdin_eof, sequences, unknown_labels, summaries, stderr>>

SkipSummarize ==
    /\ pc = "summarize"
    /\ args.summarize = ""
    /\ pc' = "report"
    /\ UNCHANGED <<args, out_file, handles, input_files, file_idx, record_idx,
                   stdin_eof, sequences, unknown_labels, summaries, stderr, error>>

\* The report printed to standard error.
ReportOf(seqs, df, unknown) ==
    [line    |-> "report",
     total   |-> Len(seqs),
     parsed  |-> Len(df) - Len(unknown),
     unknown |-> Len(unknown),
     labels  |-> unknown]

Report ==
    /\ pc = "report"
    /\ stderr' = Append(stderr, ReportOf(sequences, sequences, unknown_labels))
    /\ pc' = "close"
    /\ UNCHANGED <<args, out_file, handles, input_files, file_idx, record_idx,
                   stdin_eof, sequences, unknown_labels, summaries, error>>

\* The statement `file.close` names the method and does not call it.
CloseFile(h) == h

\* for file in input_files: if file is not sys.stdin: file.close
CloseInputs ==
    /\ pc = "close"
    /\ handles' = [k \in DOMAIN handles |->
                      IF \E i \in DOMAIN input_files : input_files[i] = k
                      THEN CloseFile(handles[k]) ELSE handles[k]]
    /\ pc' = "done"
    /\ UNCHANGED <<args, out_file, input_files, file_idx, record_idx, stdin_eof,
                   sequences, unknown_labels, summaries, stderr, error>>

Next ==
    \/ ParseArgs
    \/ OpenInputs
    \/ OpenInputsFails
    \/ NextFile
    \/ ParseRecord
    \/ EndOfFile
    \/ ReadFails
    \/ ParseReturn
    \/ WriteOutput
    \/ Summarize
    \/ SummarizeFails
    \/ SkipSummarize
    \/ Report
    \/ CloseInputs

Spec == Init /\ [][Next]_vars

----------------------------------------------------------------------------
(* parse_sequences alone, over every list of sources *)

InitParse ==
    InitWith(SeqsUpTo(PathSet, MaxPaths), {"stdout"}, {"json"}, {""}, {""})

NextParse ==
    \/ ParseArgs
    \/ OpenInputs
    \/ OpenInputsFails
    \/ NextFile
    \/ ParseRecord
    \/ EndOfFile
    \/ ReadFails
    \/ ParseReturn

SpecParse == InitParse /\ [][NextParse]_vars

----------------------------------------------------------------------------
(* Runs over one readable source, with every choice of output options *)

InitOutput ==
    InitWith({<<>>, <<"a.fa">>}, {"stdout", "out"}, Formats,
             {"", "sum"}, Formats \cup {""})

NextOutput ==
    \/ ParseArgs
    \/ OpenInputs
    \/ NextFile
    \/ ParseRecord
    \/ EndOfFile
    \/ ParseReturn
    \/ WriteOutput
    \/ Summarize
    \/ SummarizeFails
    \/ SkipSummarize
    \/ Report
    \/ CloseInputs

SpecOutput == InitOutput /\ [][NextOutput]_vars

----------------------------------------------------------------------------
(* parse_sequences applied to one record whose label is drawn from Labels *)

InitLabel ==
    /\ args = [paths |-> <<"-">>, output_filepath |-> "stdout",
               output_format |-> "json", summarize |-> "", summarize_format |-> ""]
    /\ pc = "for_record"
    /\ out_file = [state |-> "untouched", format |-> "", rows |-> <<>>]
    /\ handles = <<>>
    /\ input_files = <<0>>
    /\ file_idx = 1
    /\ record_idx = 0
    /\ stdin_eof = FALSE
    /\ sequences = <<>>
    /\ unknown_labels = <<>>
    /\ summaries = <<>>
    /\ stderr = <<[line |-> "(reading from standard input)"]>>
    /\ error = ""

ParseLabel ==
    /\ sequences = <<>>
    /\ \E label \in Labels : ParseRecordOf([id |-> label, seq |-> <<>>])

NextLabel == ParseLabel

SpecLabel == InitLabel /\ [][NextLabel]_vars

----------------------------------------------------------------------------
(* Vocabulary of the properties *)

\* s has the shape 4 digits, dash, 2 digits, dash, 2 digits.
DateShaped(s) ==
    /\ Len(s) = 10
    /\ \A k \in {1, 2, 3, 4, 6, 7, 9, 10} : s[k] \in Digit
    /\ s[5] = "-"
    /\ s[8] = "-"

\* label has a date-shaped substring starting at position i.
HasDateAt(label, i) ==
    /\ i >= 1
    /\ i + 9 <= Len(label)
    /\ DateShaped(SubSeq(label, i, i + 9))

NoDate(label) == \A i \in 1..Len(label) : ~HasDateAt(label, i)

Dash == <<"-">>

\* a is lexically smaller than b: they agree up to a position where a ends
\* or holds the earlier character.
LexBefore(a, b) ==
    \E p \in 1..(Len(b)) :
       /\ \A q \in 1..(p - 1) : q <= Len(a) /\ a[q] = b[q]
       /\ \/ Len(a) = p - 1
          \/ Len(a) >= p /\ Ord(a[p]) < Ord(b[p])

\* Key tuple k1 is lexically smaller than k2.
KeyBefore(k1, k2) ==
    \E p \in DOMAIN k1 :
       /\ \A q \in 1..(p - 1) : k1[q] = k2[q]
       /\ LexBefore(k1[p], k2[p])

RECURSIVE SumCounts(_)
SumCounts(rows) ==
    IF rows = <<>> THEN 0 ELSE rows[1].NumSequences + SumCounts(Tail(rows))

Terminated == pc \in {"done", "crashed"}

\* Every source named on the command line can be opened and read.
AllReadable ==
    \A i \in DOMAIN args.paths :
        args.paths[i] = "-" \/ FileStatus(args.paths[i]) = "ok"

Reports == SelectSeq(stderr, LAMBDA m : m.line = "report")

----------------------------------------------------------------------------
(* C1 *)

\* C1: for every record whose label contains a date-shaped substring,
\* sequenceDateISO is the leftmost such substring and year, month and day
\* joined with dashes give sequenceDateISO again.
C1_LeftmostDate ==
    \A n \in DOMAIN sequences :
        LET r == sequences[n]
            l == r.sequenceLabel
        IN  \A i \in 1..Len(l) :
                (HasDateAt(l, i) /\ \A j \in 1..(i - 1) : ~HasDateAt(l, j))
                => /\ r.sequenceDateISO = SubSeq(l, i, i + 9)
                   /\ r.sequenceDateYear \o Dash \o r.sequenceDateMonth
                          \o Dash \o r.sequenceDateDay = r.sequenceDateISO

\* A record whose label holds two different date-shaped substrings.
C1_Witness ==
    \E n \in DOMAIN sequences :
        LET l == sequences[n].sequenceLabel
        IN  \E i, j \in 1..Len(l) :
                /\ i < j
                /\ HasDateAt(l, i)
                /\ HasDateAt(l, j)
                /\ SubSeq(l, i, i + 9) # SubSeq(l, j, j + 9)
                /\ sequences[n].sequenceDateISO = SubSeq(l, i, i + 9)

----------------------------------------------------------------------------
(* C2 *)

UndatedRows == SelectSeq(sequences, LAMBDA r : NoDate(r.sequenceLabel))

\* C2: a record whose label has no date-shaped substring has the sentinel
\* in all four date fields, and unknown_labels is exactly the labels of
\* those records, one entry per record, in encounter order.
C2_UnknownLabels ==
    /\ \A n \in DOMAIN sequences :
          NoDate(sequences[n].sequenceLabel)
          => /\ sequences[n].sequenceDateISO = NA
             /\ sequences[n].sequenceDateYear = NA
             /\ sequences[n].sequenceDateMonth = NA
             /\ sequences[n].sequenceDateDay = NA
    /\ unknown_labels = [k \in DOMAIN UndatedRows |-> UndatedRows[k].sequenceLabel]

\* parse_sequences has returned a table with a dated record and with two
\* undated records that share a label.
C2_Witness ==
    /\ pc = "output"
    /\ \E n \in DOMAIN sequences : ~NoDate(sequences[n].sequenceLabel)
    /\ \E i, j \in DOMAIN unknown_labels :
          i < j /\ unknown_labels[i] = unknown_labels[j]

----------------------------------------------------------------------------
(* C3 *)

\* C3: in every summary written, the counts add up to the number of
\* records, and the records with unknown dates are counted in a bucket of
\* their own.
C3_CountsSum ==
    \A n \in DOMAIN summaries :
        LET rows == summaries[n].rows
            unknown == {i \in DOMAIN sequences : sequences[i].sequenceDateISO = NA}
        IN  /\ SumCounts(rows) = Len(sequences)
            /\ unknown # {}
               => \E k \in DOMAIN rows :
                     /\ \A c \in DOMAIN rows[k].key : rows[k].key[c] = NA
                     /\ rows[k].NumSequences = Cardinality(unknown)

\* Summaries of a table that mixes dated and undated records.
C3_Witness ==
    /\ Len(summaries) = 3
    /\ \E i, j \in DOMAIN sequences :
          /\ sequences[i].sequenceDateISO = NA
          /\ sequences[j].sequenceDateISO # NA

----------------------------------------------------------------------------
(* C7 *)

\* C7: every summary written has its rows in strictly ascending lexical
\* order of the key (hence no key twice), and its keys are exactly the
\* key combinations present in the record table.
C7_OneRowPerKeySorted ==
    \A n \in DOMAIN summaries :
        LET rows == summaries[n].rows
            cols == GroupColumns(SummaryNames[n])
        IN  /\ \A i, j \in DOMAIN rows :
                  i < j => KeyBefore(rows[i].key, rows[j].key)
            /\ {rows[i].key : i \in DOMAIN rows}
                  = {KeyOf(sequences[i], cols) : i \in DOMAIN sequences}

\* A monthly summary with two months of one year whose records were read
\* in descending order of month.
C7_Witness ==
    /\ Len(summaries) = 3
    /\ \E i, j \in DOMAIN summaries[2].rows :
          /\ i < j
          /\ summaries[2].rows[i].key[1] = summaries[2].rows[j].key[1]
    /\ \E i, j \in DOMAIN sequences :
          /\ i < j
          /\ sequences[i].sequenceDateYear = sequences[j].sequenceDateYear
          /\ LexBefore(sequences[j].sequenceDateMonth, sequences[i].sequenceDateMonth)

----------------------------------------------------------------------------
(* C8 *)

\* The source paths of the runs of records that start at offset 0.
SegmentPaths ==
    LET starts == SelectSeq(sequences, LAMBDA r : r.sequenceSourceOffset = 0)
    IN  [k \in DOMAIN starts |-> starts[k].sequenceSourcePath]

\* a is b with some elements left out.
RECURSIVE IsSubsequence(_, _)
IsSubsequence(a, b) ==
    IF a = <<>> THEN TRUE
    ELSE IF b = <<>> THEN FALSE
    ELSE IF a[1] = b[1] THEN IsSubsequence(Tail(a), Tail(b))
    ELSE IsSubsequence(a, Tail(b))

\* The sources whose reading has begun, in the order listed.
SourcesBegun ==
    LET n == IF pc = "for_record" THEN file_idx
             ELSE IF file_idx - 1 <= Len(input_files) THEN file_idx - 1
             ELSE Len(input_files)
    IN  [i \in 1..n |-> SourcePath(FileName(input_files[i]))]

\* C8: the table is a concatenation of one block per source, in the order
\* the sources were listed; within a block the offsets are 0, 1, 2, ...
C8_OffsetsPerSource ==
    /\ \A n \in DOMAIN sequences :
          \/ sequences[n].sequenceSourceOffset = 0
          \/ /\ n > 1
             /\ sequences[n].sequenceSourceOffset
                   = sequences[n - 1].sequenceSourceOffset + 1
             /\ sequences[n].sequenceSourcePath = sequences[n - 1].sequenceSourcePath
    /\ IsSubsequence(SegmentPaths, SourcesBegun)
    /\ pc = "for_record"
       => /\ record_idx <= Len(sequences)
          /\ \A k \in 0..(record_idx - 1) :
                LET r == sequences[Len(sequences) - record_idx + 1 + k]
                IN  /\ r.sequenceSourceOffset = k
                    /\ r.sequenceSourcePath = SourcePath(FileName(CurrentFile))

\* A table of two records from one source followed by one from another.
C8_Witness ==
    /\ pc = "output"
    /\ Len(sequences) = 3
    /\ sequences[1].sequenceSourceOffset = 0
    /\ sequences[2].sequenceSourceOffset = 1
    /\ sequences[3].sequenceSourceOffset = 0
    /\ sequences[3].sequenceSourcePath # sequences[1].sequenceSourcePath

----------------------------------------------------------------------------
(* C9 *)

\* C9: once the summaries of a run with --summarize are written, all three
\* files have the --summarize-format value if it was supplied and the
\* --output-format value otherwise.
C9_SummaryFormat ==
    (args.summarize # "" /\ pc \in {"report", "close", "done"})
    => /\ Len(summaries) = 3
       /\ \A n \in DOMAIN summaries :
             summaries[n].format =
                IF args.summarize_format # "" THEN args.summarize_format
                ELSE args.output_format

\* --output-format=tsv, no --summarize-format: tab-separated summaries.
C9_Witness ==
    /\ pc = "done"
    /\ args.output_format = "tsv"
    /\ args.summarize_format = ""
    /\ Len(summaries) = 3
    /\ \A n \in DOMAIN summaries : summaries[n].format = "tsv"

----------------------------------------------------------------------------
(* C4 *)

\* C4: a run over readable sources that hold no record, with --summarize,
\* ends normally with an empty primary table and three summaries without
\* data rows.
C4_EmptyInputSummaries ==
    (Terminated /\ AllReadable /\ sequences = <<>> /\ args.summarize # "")
    => /\ pc = "done"
       /\ out_file.state = "written"
       /\ out_file.rows = <<>>
       /\ Len(summaries) = 3
       /\ \A n \in DOMAIN summaries : summaries[n].rows = <<>>

----------------------------------------------------------------------------
(* C5 *)

\* C5: when the run has ended, every handle opened from a named path is
\* closed.
C5_HandlesClosed ==
    Terminated => \A k \in DOMAIN handles : handles[k].closed

----------------------------------------------------------------------------
(* C6 *)

\* C6: a run that ends because a named input cannot be opened or read has
\* not created, truncated or written the primary output destination and
\* has written no summary file.
C6_NoOutputOnInputError ==
    (pc = "crashed" /\ error \in {"OpenError", "ReadError"})
    => /\ out_file.state = "untouched"
       /\ summaries = <<>>

----------------------------------------------------------------------------
(* C10 *)

\* C10: a run whose sources are all readable ends with the report printed,
\* after the primary output and the requested summaries, and the report's
\* counts satisfy total = parsed + unknown with unknown the number of
\* labels listed.
C10_ReportEmitted ==
    (Terminated /\ AllReadable)
    => /\ Len(Reports) = 1
       /\ out_file.state = "written"
       /\ args.summarize # "" => Len(summaries) = 3
       /\ Reports[1].total = Reports[1].parsed + Reports[1].unknown
       /\ Reports[1].unknown = Len(Reports[1].labels)
       /\ Reports[1].total = Len(sequences)

====
